---- MODULE Spec2Model ----
(***************************************************************************)
(* RC Arsenal backend: an Express proxy in front of the Shopify admin      *)
(* GraphQL API and the ImgBB upload API.  The repository holds two         *)
(* revisions of the server, src/server.js and src/unnamed/part_000; the    *)
(* variable rev says which one is running.                                 *)
(*                                                                         *)
(* JavaScript strings that the code parses, prefixes or concatenates are   *)
(* sequences of one-character strings.  JavaScript values are tagged       *)
(* records, so that a number, a string holding its digits and NaN are      *)
(* three different values.                                                 *)
(***************************************************************************)
EXTENDS Integers, Sequences, FiniteSets, TLC

(***************************************************************************)
(* JavaScript values                                                       *)
(***************************************************************************)
Undef == [t |-> "undefined"]
Null == [t |-> "null"]
NaN == [t |-> "NaN"]
Bool(b) == [t |-> "boolean", b |-> b]
Num(n) == [t |-> "number", n |-> n]
Str(s) == [t |-> "string", s |-> s]
Arr(a) == [t |-> "array", a |-> a]
\* an object literal: the sequence of its <<key, value>> members
Obj(o) == [t |-> "object", o |-> o]

\* ToBoolean, as used by ||, && and !
Truthy(v) ==
  CASE v.t = "undefined" -> FALSE
    [] v.t = "null" -> FALSE
    [] v.t = "NaN" -> FALSE
    [] v.t = "boolean" -> v.b
    [] v.t = "number" -> v.n # 0
    [] v.t = "string" -> v.s # <<>>
    [] OTHER -> TRUE

\* a || b
Or(a, b) == IF Truthy(a) THEN a ELSE b

Digits == <<"0", "1", "2", "3", "4", "5", "6", "7", "8", "9">>
IsDigit(c) == \E i \in 1..10 : Digits[i] = c
DigitVal(c) == (CHOOSE i \in 1..10 : Digits[i] = c) - 1
WhiteSpace == {" ", "\t", "\n", "\r"}

RECURSIVE NatToString(_)
NatToString(n) ==
  IF n < 10 THEN <<Digits[n + 1]>>
  ELSE NatToString(n \div 10) \o <<Digits[(n % 10) + 1]>>

\* Number.prototype.toString for an integer
NumberToString(n) == IF n < 0 THEN <<"-">> \o NatToString(0 - n) ELSE NatToString(n)

RECURSIVE Join(_, _)
\* Array.prototype.join over strings already converted
Join(strs, sep) ==
  IF strs = <<>> THEN <<>>
  ELSE IF Len(strs) = 1 THEN strs[1]
  ELSE strs[1] \o sep \o Join(Tail(strs), sep)

RECURSIVE JSString(_)
\* String(v): the ToString abstract operation
JSString(v) ==
  CASE v.t = "undefined" -> <<"u", "n", "d", "e", "f", "i", "n", "e", "d">>
    [] v.t = "null" -> <<"n", "u", "l", "l">>
    [] v.t = "NaN" -> <<"N", "a", "N">>
    [] v.t = "boolean" -> IF v.b THEN <<"t", "r", "u", "e">> ELSE <<"f", "a", "l", "s", "e">>
    [] v.t = "number" -> NumberToString(v.n)
    [] v.t = "string" -> v.s
    [] v.t = "array" ->
         Join([i \in 1..Len(v.a) |->
                 IF v.a[i].t \in {"undefined", "null"} THEN <<>> ELSE JSString(v.a[i])],
              <<",">>)
    [] OTHER -> <<"[", "o", "b", "j", "e", "c", "t", " ", "O", "b", "j", "e", "c", "t", "]">>

\* v.toString(): a property access, so it throws on undefined and null
HasToString(v) == v.t \notin {"undefined", "null"}

RECURSIVE TrimStart(_)
TrimStart(s) == IF s # <<>> /\ Head(s) \in WhiteSpace THEN TrimStart(Tail(s)) ELSE s

RECURSIVE TrimEnd(_)
TrimEnd(s) ==
  IF s # <<>> /\ s[Len(s)] \in WhiteSpace THEN TrimEnd(SubSeq(s, 1, Len(s) - 1)) ELSE s

\* String.prototype.trim
Trim(s) == TrimEnd(TrimStart(s))

\* String.prototype.startsWith
StartsWith(s, p) == Len(s) >= Len(p) /\ SubSeq(s, 1, Len(p)) = p

RECURSIVE DigitPrefix(_)
\* the longest prefix of s made of decimal digits
DigitPrefix(s) ==
  IF s # <<>> /\ IsDigit(Head(s)) THEN <<Head(s)>> \o DigitPrefix(Tail(s)) ELSE <<>>

RECURSIVE DigitsValue(_, _)
DigitsValue(ds, acc) ==
  IF ds = <<>> THEN acc ELSE DigitsValue(Tail(ds), acc * 10 + DigitVal(Head(ds)))

\* Number.parseInt(s, 10) of a string: leading white space, an optional sign,
\* then the longest run of digits; NaN when there is no digit
ParseInt(s) ==
  LET t == TrimStart(s)
      neg == t # <<>> /\ Head(t) = "-"
      u == IF t # <<>> /\ Head(t) \in {"-", "+"} THEN Tail(t) ELSE t
      ds == DigitPrefix(u)
  IN  IF ds = <<>> THEN NaN
      ELSE IF neg THEN Num(0 - DigitsValue(ds, 0)) ELSE Num(DigitsValue(ds, 0))

(***************************************************************************)
(* JSON.parse, for JSON texts without white space, escapes, fractions or   *)
(* exponents; every other text is a SyntaxError (ok = FALSE).              *)
(***************************************************************************)
ParseFail == [ok |-> FALSE, v |-> Undef, rest |-> <<>>]
ParseOk(v, rest) == [ok |-> TRUE, v |-> v, rest |-> rest]

RECURSIVE UpToQuote(_)
\* the characters before the first double quote
UpToQuote(s) ==
  IF s = <<>> \/ Head(s) = "\"" THEN <<>> ELSE <<Head(s)>> \o UpToQuote(Tail(s))

\* s starts with a double quote
ParseString(s) ==
  LET body == UpToQuote(Tail(s))
  IN  IF Len(body) + 2 > Len(s) THEN ParseFail
      ELSE ParseOk(Str(body), SubSeq(s, Len(body) + 3, Len(s)))

ParseNumber(s) ==
  LET neg == Head(s) = "-"
      u == IF neg THEN Tail(s) ELSE s
      ds == IF u # <<>> /\ Head(u) = "0" THEN <<"0">> ELSE DigitPrefix(u)
      rest == SubSeq(u, Len(ds) + 1, Len(u))
  IN  IF ds = <<>> THEN ParseFail
      ELSE ParseOk(Num(IF neg THEN 0 - DigitsValue(ds, 0) ELSE DigitsValue(ds, 0)), rest)

ParseLiteral(s) ==
  LET lit(p, v) == IF StartsWith(s, p) THEN ParseOk(v, SubSeq(s, Len(p) + 1, Len(s))) ELSE ParseFail
  IN  CASE Head(s) = "t" -> lit(<<"t", "r", "u", "e">>, Bool(TRUE))
        [] Head(s) = "f" -> lit(<<"f", "a", "l", "s", "e">>, Bool(FALSE))
        [] Head(s) = "n" -> lit(<<"n", "u", "l", "l">>, Null)
        [] OTHER -> ParseFail

RECURSIVE ParseValue(_), ParseElements(_, _), ParseMembers(_, _)
ParseValue(s) ==
  IF s = <<>> THEN ParseFail
  ELSE CASE Head(s) = "[" ->
              IF Len(s) >= 2 /\ s[2] = "]" THEN ParseOk(Arr(<<>>), SubSeq(s, 3, Len(s)))
              ELSE ParseElements(Tail(s), <<>>)
         [] Head(s) = "{" ->
              IF Len(s) >= 2 /\ s[2] = "}" THEN ParseOk(Obj(<<>>), SubSeq(s, 3, Len(s)))
              ELSE ParseMembers(Tail(s), <<>>)
         [] Head(s) = "\"" -> ParseString(s)
         [] Head(s) = "-" \/ IsDigit(Head(s)) -> ParseNumber(s)
         [] OTHER -> ParseLiteral(s)

\* the elements of an array after "[" or ",", up to and including "]"
ParseElements(s, acc) ==
  LET r == ParseValue(s)
  IN  IF ~r.ok \/ r.rest = <<>> THEN ParseFail
      ELSE IF Head(r.rest) = "," THEN ParseElements(Tail(r.rest), Append(acc, r.v))
      ELSE IF Head(r.rest) = "]" THEN ParseOk(Arr(Append(acc, r.v)), Tail(r.rest))
      ELSE ParseFail

\* the members of an object after "{" or ",", up to and including "}"
ParseMembers(s, acc) ==
  IF s = <<>> \/ Head(s) # "\"" THEN ParseFail
  ELSE LET k == ParseString(s)
       IN  IF ~k.ok \/ k.rest = <<>> \/ Head(k.rest) # ":" THEN ParseFail
           ELSE LET r == ParseValue(Tail(k.rest))
                    m == Append(acc, <<k.v.s, r.v>>)
                IN  IF ~r.ok \/ r.rest = <<>> THEN ParseFail
                    ELSE IF Head(r.rest) = "," THEN ParseMembers(Tail(r.rest), m)
                    ELSE IF Head(r.rest) = "}" THEN ParseOk(Obj(m), Tail(r.rest))
                    ELSE ParseFail

\* JSON.parse(s): ok = FALSE stands for the SyntaxError it throws
JSONParse(s) ==
  LET r == ParseValue(s)
  IN  IF r.ok /\ r.rest = <<>> THEN [ok |-> TRUE, v |-> r.v] ELSE [ok |-> FALSE, v |-> Undef]

RECURSIVE WireValue(_)
\* what a client decodes from res.json(v): JSON.stringify writes NaN, and
\* undefined inside an array, as null
WireValue(v) ==
  CASE v.t \in {"undefined", "NaN"} -> Null
    [] v.t = "array" -> Arr([i \in 1..Len(v.a) |-> WireValue(v.a[i])])
    [] v.t = "object" -> Obj([i \in 1..Len(v.o) |-> <<v.o[i][1], WireValue(v.o[i][2])>>])
    [] OTHER -> v

\* res.json of an object held as a function from property names to values
Wire(obj) == [k \in {x \in DOMAIN obj : obj[x].t # "undefined"} |-> WireValue(obj[k])]

(***************************************************************************)
(* String constants of the source                                          *)
(***************************************************************************)
GidPrefix ==
  <<"g", "i", "d", ":", "/", "/", "s", "h", "o", "p", "i", "f", "y", "/",
    "C", "u", "s", "t", "o", "m", "e", "r", "/">>
SingleLineTextField ==
  <<"s", "i", "n", "g", "l", "e", "_", "l", "i", "n", "e", "_",
    "t", "e", "x", "t", "_", "f", "i", "e", "l", "d">>
TypeInteger == <<"i", "n", "t", "e", "g", "e", "r">>
TypeNumberInteger == <<"n", "u", "m", "b", "e", "r", "_">> \o TypeInteger
TypeJsonString == <<"j", "s", "o", "n", "_", "s", "t", "r", "i", "n", "g">>
Recruit == <<"R", "e", "c", "r", "u", "i", "t">>
Unknown == <<"U", "n", "k", "n", "o", "w", "n">>
Independent == <<"I", "n", "d", "e", "p", "e", "n", "d", "e", "n", "t">>
UnnamedPilot == <<"U", "n", "n", "a", "m", "e", "d", " ", "P", "i", "l", "o", "t">>

(***************************************************************************)
(* Objects held as functions from property names to values                 *)
(***************************************************************************)
Get(obj, k) == IF k \in DOMAIN obj THEN obj[k] ELSE Undef

\* `${a || ""} ${b || ""}`.trim()
FullName(node) ==
  Str(Trim(JSString(Or(node.firstName, Str(<<>>))) \o <<" ">>
           \o JSString(Or(node.lastName, Str(<<>>)))))

\* the value of an aliased metafield of a killboard node: node.alias?.value
MetafieldValue(node, key) ==
  IF key \in DOMAIN node.metafields THEN Str(node.metafields[key].value) ELSE Undef

\* Number.parseInt(v, 10): the argument is converted to a string first
NumberParseInt(v) == ParseInt(JSString(v))

(***************************************************************************)
(* GET /apps/garage-data: from the customer node to the response object    *)
(***************************************************************************)
\* the properties the handlers assign after the forEach
NormalisedKeys ==
  {"username", "level", "xp", "victories", "tier", "country", "faction",
   "avatar_url", "car_image_url", "achievements"}

\* src/server.js, garageData after the forEach: the id and every metafield
\* value as the string upstream returned
RawServer(node) ==
  [k \in {"id"} \cup DOMAIN node.metafields |->
     IF k \in DOMAIN node.metafields THEN Str(node.metafields[k].value) ELSE Str(node.id)]

\* src/server.js, "Add defaults if not present": each assignment reads only
\* the property it writes; threw = TRUE when JSON.parse raises (inside the
\* try block)
GarageDataServer(node) ==
  LET g == RawServer(node)
      ach == JSONParse(JSString(Or(Get(g, "achievements"), Str(<<"[", "]">>))))
  IN  [threw |-> ~ach.ok,
       data |-> [k \in DOMAIN g \cup NormalisedKeys |->
          CASE k = "username" -> Or(Get(g, k), FullName(node))
            [] k = "level" -> NumberParseInt(Or(Get(g, k), Str(<<"1">>)))
            [] k = "xp" -> NumberParseInt(Or(Get(g, k), Str(<<"0">>)))
            [] k = "victories" -> NumberParseInt(Or(Get(g, k), Str(<<"0">>)))
            [] k = "tier" -> Or(Get(g, k), Str(Recruit))
            [] k = "country" -> Or(Get(g, k), Str(Unknown))
            [] k = "faction" -> Or(Get(g, k), Str(Independent))
            [] k = "avatar_url" -> Or(Get(g, k), Str(<<>>))
            [] k = "car_image_url" -> Or(Get(g, k), Str(<<>>))
            [] k = "achievements" -> ach.v
            [] OTHER -> g[k]]]

\* src/unnamed/part_000: the body of the forEach over the metafield edges
GarageFieldPart(key, node) ==
  IF node.type \in {TypeInteger, TypeNumberInteger} THEN ParseInt(node.value)
  ELSE IF node.type = TypeJsonString \/ key = "achievements"
       THEN LET p == JSONParse(node.value) IN IF p.ok THEN p.v ELSE Str(node.value)
       ELSE Str(node.value)

\* src/unnamed/part_000, garageData after the forEach
RawPart(node) ==
  [k \in {"id", "username_default"} \cup DOMAIN node.metafields |->
     IF k \in DOMAIN node.metafields THEN GarageFieldPart(k, node.metafields[k])
     ELSE IF k = "id" THEN Str(node.id)
     ELSE Or(node.displayName, FullName(node))]

\* src/unnamed/part_000, the defaults: each assignment reads the property it
\* writes, username_default or tier_text; nothing here throws
GarageDataPart(node) ==
  LET g == RawPart(node)
  IN  [threw |-> FALSE,
       data |-> [k \in DOMAIN g \cup NormalisedKeys |->
          CASE k = "username" ->
                 Or(Or(Get(g, k), Get(g, "username_default")), Str(UnnamedPilot))
            [] k = "level" -> Or(Get(g, k), Num(1))
            [] k = "xp" -> Or(Get(g, k), Num(0))
            [] k = "victories" -> Or(Get(g, k), Num(0))
            [] k = "tier" -> Or(Or(Get(g, "tier_text"), Get(g, k)), Str(Recruit))
            [] k = "country" -> Or(Get(g, k), Str(Unknown))
            [] k = "faction" -> Or(Get(g, k), Str(Independent))
            [] k = "avatar_url" -> Or(Get(g, k), Str(<<>>))
            [] k = "car_image_url" -> Or(Get(g, k), Str(<<>>))
            [] k = "achievements" -> Or(Get(g, k), Arr(<<>>))
            [] OTHER -> g[k]]]

GarageData(r, node) == IF r = "server.js" THEN GarageDataServer(node) ELSE GarageDataPart(node)

(***************************************************************************)
(* GET /apps/killboard: from the customer edges to the sorted players      *)
(***************************************************************************)
KillboardPlayer(r, node) ==
  [id |-> Str(node.id),
   name |-> IF r = "server.js"
            THEN Or(Or(MetafieldValue(node, "username"), FullName(node)), Str(UnnamedPilot))
            ELSE Or(Or(Or(MetafieldValue(node, "username"), node.displayName), FullName(node)),
                    Str(UnnamedPilot)),
   level |-> NumberParseInt(Or(MetafieldValue(node, "level"), Str(<<"1">>))),
   xp |-> NumberParseInt(Or(MetafieldValue(node, "xp"), Str(<<"0">>))),
   victories |-> NumberParseInt(Or(MetafieldValue(node, "victories"), Str(<<"0">>))),
   tier |-> Or(MetafieldValue(node, IF r = "server.js" THEN "tier" ELSE "tier_text"), Str(Recruit)),
   country |-> Or(MetafieldValue(node, "country"), Str(Unknown)),
   avatar |-> Or(MetafieldValue(node, "avatar_url"), Str(<<>>))]

KillboardPlayers(r, edges) == [i \in 1..Len(edges) |-> KillboardPlayer(r, edges[i])]

\* (a, b) => b.xp - a.xp; a NaN result counts as +0 in Array.prototype.sort
CompareXp(a, b) == IF a.xp.t = "NaN" \/ b.xp.t = "NaN" THEN 0 ELSE b.xp.n - a.xp.n

RECURSIVE InsertPlayer(_, _)
\* p goes behind every element that does not have to follow it
InsertPlayer(sorted, p) ==
  IF sorted # <<>> /\ CompareXp(sorted[Len(sorted)], p) > 0
  THEN Append(InsertPlayer(SubSeq(sorted, 1, Len(sorted) - 1), p), sorted[Len(sorted)])
  ELSE Append(sorted, p)

RECURSIVE StableSort(_)
StableSort(players) ==
  IF players = <<>> THEN <<>>
  ELSE InsertPlayer(StableSort(SubSeq(players, 1, Len(players) - 1)), players[Len(players)])

Orderings(seq) ==
  {[i \in 1..Len(seq) |-> seq[f[i]]] :
     f \in {g \in [1..Len(seq) -> 1..Len(seq)] : \A i, j \in 1..Len(seq) : g[i] = g[j] => i = j}}

\* players.sort((a, b) => b.xp - a.xp): the sort is stable; with a NaN key the
\* comparator is not consistent and the order is implementation-defined
SortOutcomes(players) ==
  IF \E i \in 1..Len(players) : players[i].xp.t = "NaN"
  THEN Orderings(players)
  ELSE {StableSort(players)}

WirePlayer(p) == [k \in DOMAIN p |-> WireValue(p[k])]
WirePlayers(players) == [i \in 1..Len(players) |-> WirePlayer(players[i])]

(***************************************************************************)
(* POST /apps/update-customer: validation and the mutation input           *)
(***************************************************************************)
ValidUpdateBody(r, customerId, metafields) ==
  /\ Truthy(customerId)
  /\ Truthy(metafields)
  /\ metafields.t = "array"
  /\ r = "server.js" \/ Len(metafields.a) # 0

\* the customer identifier sent upstream; threw when customerId has no
\* startsWith method (src/unnamed/part_000 only)
CustomerGid(r, customerId) ==
  IF r = "server.js" THEN [threw |-> FALSE, gid |-> GidPrefix \o JSString(customerId)]
  ELSE IF customerId.t # "string" THEN [threw |-> TRUE, gid |-> <<>>]
  ELSE IF StartsWith(customerId.s, GidPrefix) THEN [threw |-> FALSE, gid |-> customerId.s]
  ELSE [threw |-> FALSE, gid |-> GidPrefix \o customerId.s]

\* mf.key and mf.value read a property of mf: a TypeError when mf is null;
\* mf.value.toString() is one more property read (src/server.js only)
MetafieldThrows(r, mf) ==
  \/ mf.t \in {"undefined", "null"}
  \/ r = "server.js" /\ ~HasToString(mf.value)

\* a variant that serialises the value with JSON.stringify instead of String
MetafieldInputStringified(mf) ==
  [namespace |-> "rc_arsenal",
   key |-> mf.key,
   value |-> Str(IF mf.value.t = "string" THEN <<"\"">> \o mf.value.s \o <<"\"">>
                 ELSE JSString(mf.value)),
   type |-> Or(mf.type, Str(SingleLineTextField))]

MetafieldInput(mf) ==
  [namespace |-> "rc_arsenal",
   key |-> mf.key,
   value |-> Str(JSString(mf.value)),
   type |-> Or(mf.type, Str(SingleLineTextField))]

\* the input object of the customerUpdate mutation
UpdateInput(r, customerId, metafields) ==
  LET g == CustomerGid(r, customerId)
      mfs == metafields.a
  IN  IF g.threw \/ \E i \in 1..Len(mfs) : MetafieldThrows(r, mfs[i])
      THEN [threw |-> TRUE, id |-> <<>>, metafields |-> <<>>]
      ELSE [threw |-> FALSE, id |-> g.gid,
            metafields |-> [i \in 1..Len(mfs) |-> MetafieldInput(mfs[i])]]

\* the identifier of the getCustomer query; in src/unnamed/part_000 the
\* startsWith call sits inside the try block
GarageGid(r, customerId) == CustomerGid(r, customerId)

(***************************************************************************)
(* adminAuth                                                               *)
(***************************************************************************)
\* a variant that only checks that the header is present
AdminAuthPassesAnySecret(r, adminSecret, secret) ==
  IF r = "part_000" /\ ~Truthy(adminSecret) THEN TRUE
  ELSE Truthy(secret)

\* TRUE when the middleware calls next()
AdminAuthPasses(r, adminSecret, secret) ==
  IF r = "part_000" /\ ~Truthy(adminSecret) THEN TRUE
  ELSE Truthy(secret) /\ secret = adminSecret

(***************************************************************************)
(* Bounds and inputs                                                       *)
(***************************************************************************)
\* requests handled in one behaviour
MaxRequests == 2

Revisions == {"server.js", "part_000"}

Gid(bare) == GidPrefix \o bare

Metafield(value, type) == [value |-> value, type |-> type]

NoMetafields == [k \in {} |-> Metafield(<<>>, <<>>)]

Customer(bare, first, display, mf) ==
  [id |-> Gid(bare), firstName |-> first, lastName |-> Null, displayName |-> display,
   metafields |-> mf]

Alice(mf) == Customer(<<"1">>, Str(<<"A">>), Str(<<"A">>), mf)
Nobody(mf) == Customer(<<"2">>, Null, Null, mf)

\* the customers of the shop, most recently updated first
InitialCustomers ==
  { <<Alice(NoMetafields), Nobody(NoMetafields)>>,
    <<Alice([k \in {"xp", "level"} |->
               IF k = "xp" THEN Metafield(<<"5", "0">>, TypeNumberInteger)
               ELSE Metafield(<<"3">>, TypeNumberInteger)]),
      Nobody([k \in {"xp"} |-> Metafield(<<"a", "b", "c">>, SingleLineTextField)])>>,
    <<Nobody([k \in {"xp", "level"} |->
               IF k = "xp" THEN Metafield(<<"7">>, TypeNumberInteger)
               ELSE Metafield(<<"0">>, TypeNumberInteger)]),
      Alice([k \in {"achievements", "xp"} |->
               IF k = "xp" THEN Metafield(<<"1", "2">>, SingleLineTextField)
               ELSE Metafield(<<"o", "o", "p", "s">>, SingleLineTextField)])>> }

\* a request: the fields a route does not read keep their defaults
Request(route, secret, customerId, metafields, file) ==
  [route |-> route, secret |-> secret, customerId |-> customerId,
   metafields |-> metafields, file |-> file]

Entry(key, value, type) == [t |-> "object", key |-> key, value |-> value, type |-> type]

\* [{"id":1}] as a value and as JSON text
Achievements == Arr(<<Obj(<<<<<<"i", "d">>, Num(1)>>>>)>>)
AchievementsText == <<"[", "{", "\"", "i", "d", "\"", ":", "1", "}", "]">>

MetafieldBodies ==
  { Undef,
    Str(<<"x">>),
    Arr(<<>>),
    Arr(<<Entry("xp", Num(7), Str(TypeNumberInteger)), Entry("vip", Bool(TRUE), Undef),
          Entry("tier", Str(<<"A", "c", "e">>), Undef)>>),
    Arr(<<Entry("achievements", Achievements, Undef)>>),
    Arr(<<Entry("achievements", Str(AchievementsText), Undef)>>),
    Arr(<<Entry("xp", Undef, Undef)>>),
    Arr(<<Null>>),
    Arr(<<Entry("level", Num(0), Str(TypeNumberInteger))>>) }

UpdateCustomerIds == {Undef, Str(<<"1">>), Str(Gid(<<"1">>)), Num(1)}

GarageCustomerIds ==
  {Undef, Str(<<"1">>), Str(Gid(<<"1">>)), Str(<<"2">>), Str(<<"9">>),
   Arr(<<Str(<<"1">>), Str(<<"2">>)>>)}

Secrets == {Undef, Str(<<"s">>), Str(<<"x">>)}

HealthRequests == {Request("/health", Undef, Undef, Undef, FALSE)}
KillboardRequests == {Request("/apps/killboard", Undef, Undef, Undef, FALSE)}
GarageRequests == {Request("/apps/garage-data", Undef, c, Undef, FALSE) : c \in GarageCustomerIds}
UploadRequests == {Request("/apps/upload-image", Undef, Undef, Undef, f) : f \in BOOLEAN}
UpdateRequests ==
  {Request("/apps/update-customer", Undef, c, m, FALSE) :
     c \in UpdateCustomerIds, m \in MetafieldBodies}
AdminRequests ==
  {Request("/apps/admin-update", s, c, m, FALSE) :
     s \in Secrets, c \in UpdateCustomerIds, m \in MetafieldBodies}

NoRequest == Request("", Undef, Undef, Undef, FALSE)
NoReply == [api |-> "", outcome |-> "", data |-> Undef]

(***************************************************************************)
(* State                                                                   *)
(***************************************************************************)
VARIABLES
  rev,                   \* the revision that runs: "server.js" or "part_000"
  ADMIN_SECRET,          \* process.env.ADMIN_SECRET
  SHOPIFY_STORE_URL,     \* TRUE when process.env.SHOPIFY_STORE_URL is set
  SHOPIFY_ACCESS_TOKEN,  \* TRUE when process.env.SHOPIFY_ACCESS_TOKEN is set
  IMGBB_API_KEY,         \* TRUE when process.env.IMGBB_API_KEY is set
  customers,             \* the upstream customer records, most recently updated first
  req,                   \* the request being handled, or the last one handled
  pc,                    \* where its handler stands
  invoked,               \* the middleware and handlers entered for req, in order
  calls,                 \* the upstream calls made for req, in order
  reply,                 \* the upstream reply the handler is about to read
  responses,             \* the HTTP responses sent for req, in order
  handled,               \* the number of requests received
  written                \* the last achievements value a caller wrote, with its customer

config == <<rev, ADMIN_SECRET, SHOPIFY_STORE_URL, SHOPIFY_ACCESS_TOKEN, IMGBB_API_KEY>>
vars == <<config, customers, req, pc, invoked, calls, reply, responses, handled, written>>

NothingWritten == [id |-> <<>>, value |-> Undef]

Init ==
  /\ rev \in Revisions
  /\ ADMIN_SECRET \in {Undef, Str(<<"s">>)}
  /\ SHOPIFY_STORE_URL \in BOOLEAN
  /\ SHOPIFY_ACCESS_TOKEN \in BOOLEAN
  /\ IMGBB_API_KEY \in BOOLEAN
  /\ customers \in InitialCustomers
  /\ req = NoRequest
  /\ pc = "idle"
  /\ invoked = <<>>
  /\ calls = <<>>
  /\ reply = NoReply
  /\ responses = <<>>
  /\ handled = 0
  /\ written = NothingWritten

Response(status, kind, body) == [status |-> status, kind |-> kind, body |-> body]
ErrorResponse(status) == Response(status, "error", Undef)

\* a handler starts only when no other request is under way
CanReceive == pc \in {"idle", "done", "rejected"} /\ handled < MaxRequests

Receive(r) ==
  /\ CanReceive
  /\ req' = r
  /\ handled' = handled + 1
  /\ reply' = NoReply
  /\ UNCHANGED <<config, customers, written>>

\* shopifyFetch throws before any network I/O (src/unnamed/part_000 only)
CredentialsMissing == rev = "part_000" /\ ~(SHOPIFY_STORE_URL /\ SHOPIFY_ACCESS_TOKEN)

ShopifyCall(op, variables) == [api |-> "shopify", op |-> op, variables |-> variables]

ShopifyConfigured == SHOPIFY_STORE_URL /\ SHOPIFY_ACCESS_TOKEN

Sent(status, kind, body) ==
  /\ responses' = <<Response(status, kind, body)>>
  /\ calls' = <<>>
  /\ pc' = "done"

\* the handler reaches its await on the upstream call
Awaiting(call, where) ==
  /\ responses' = <<>>
  /\ calls' = <<call>>
  /\ pc' = where

(***************************************************************************)
(* Handlers, up to their first await                                       *)
(***************************************************************************)
Health ==
  \E r \in HealthRequests :
    /\ Receive(r)
    /\ invoked' = <<"health">>
    /\ Sent(200, "text", Str(<<"O", "K">>))

Killboard ==
  \E r \in KillboardRequests :
    /\ Receive(r)
    /\ invoked' = <<"killboard">>
    /\ IF CredentialsMissing THEN Sent(500, "error", Undef)
       ELSE Awaiting(ShopifyCall("getCustomers", Undef), "awaitShopify")

GarageDataStart ==
  \E r \in GarageRequests :
    /\ Receive(r)
    /\ invoked' = <<"garage-data">>
    /\ IF ~Truthy(r.customerId) THEN Sent(400, "error", Undef)
       ELSE LET g == GarageGid(rev, r.customerId)
            IN  IF g.threw \/ CredentialsMissing THEN Sent(500, "error", Undef)
                ELSE Awaiting(ShopifyCall("getCustomer", [id |-> g.gid]), "awaitShopify")

UploadImage ==
  \E r \in UploadRequests :
    /\ Receive(r)
    /\ invoked' = <<"upload-image">>
    /\ IF ~r.file THEN Sent(400, "error", Undef)
       ELSE IF ~IMGBB_API_KEY THEN Sent(500, "error", Undef)
       ELSE Awaiting([api |-> "imgbb", op |-> "upload", variables |-> Undef], "awaitImgbb")

\* the handler of POST /apps/update-customer; the mutation input is built
\* outside the try block, so an exception there rejects the handler's promise
\* and no response is sent
UpdateCustomerHandler(r) ==
  IF ~ValidUpdateBody(rev, r.customerId, r.metafields) THEN Sent(400, "error", Undef)
  ELSE LET input == UpdateInput(rev, r.customerId, r.metafields)
       IN  IF input.threw
           THEN /\ responses' = <<>>
                /\ calls' = <<>>
                /\ pc' = "rejected"
           ELSE IF CredentialsMissing THEN Sent(500, "error", Undef)
           ELSE Awaiting(ShopifyCall("customerUpdate",
                                     [id |-> input.id, metafields |-> input.metafields]),
                         "awaitShopify")

UpdateCustomer ==
  \E r \in UpdateRequests :
    /\ Receive(r)
    /\ invoked' = <<"update-customer">>
    /\ UpdateCustomerHandler(r)

\* adminAuth, then the admin-update handler, which hands the request to the
\* router again under the url /apps/update-customer
AdminUpdate ==
  \E r \in AdminRequests :
    /\ Receive(r)
    /\ IF AdminAuthPasses(rev, ADMIN_SECRET, r.secret)
       THEN /\ invoked' = <<"adminAuth", "admin-update", "update-customer">>
            /\ UpdateCustomerHandler(r)
       ELSE /\ invoked' = <<"adminAuth">>
            /\ Sent(403, "error", Undef)

(***************************************************************************)
(* The upstream services                                                   *)
(***************************************************************************)
IndexOf(custs, gid) == {i \in 1..Len(custs) : custs[i].id = gid}

\* customerUpdate: the metafields of the input replace or extend those of the
\* customer, later entries winning, and the customer becomes the most
\* recently updated one
ApplyUpdate(custs, input) ==
  LET i == CHOOSE n \in IndexOf(custs, input.id) : TRUE
      old == custs[i].metafields
      last(k) == CHOOSE j \in 1..Len(input.metafields) :
                   /\ input.metafields[j].key = k
                   /\ \A m \in (j + 1)..Len(input.metafields) : input.metafields[m].key # k
      keys == DOMAIN old \cup {input.metafields[j].key : j \in 1..Len(input.metafields)}
      new == [k \in keys |->
                IF \E j \in 1..Len(input.metafields) : input.metafields[j].key = k
                THEN Metafield(input.metafields[last(k)].value.s, input.metafields[last(k)].type.s)
                ELSE old[k]]
      others == SelectSeq(custs, LAMBDA c : c.id # input.id)
  IN  <<[custs[i] EXCEPT !.metafields = new]>> \o others

\* the value of the last achievements entry of the request body, if any
WrittenBy(r, gid) ==
  LET js == {j \in 1..Len(r.metafields.a) : r.metafields.a[j].key = "achievements"}
  IN  IF js = {} THEN written
      ELSE [id |-> gid, value |-> r.metafields.a[CHOOSE j \in js : \A m \in js : m <= j].value]

ShopifyReply ==
  /\ pc = "awaitShopify"
  /\ pc' = "shopifyReplied"
  /\ LET call == calls[1]
     IN  \E outcome \in {"transport", "errors", "userErrors", "data"} :
           /\ outcome \in {"errors", "userErrors", "data"} => ShopifyConfigured
           /\ outcome = "userErrors" => call.op = "customerUpdate"
           /\ CASE outcome = "data" /\ call.op = "getCustomers" ->
                     /\ reply' = [api |-> "shopify", outcome |-> outcome, data |-> customers]
                     /\ UNCHANGED <<customers, written>>
                [] outcome = "data" /\ call.op = "getCustomer" ->
                     /\ reply' = [api |-> "shopify", outcome |-> outcome,
                                  data |-> IF IndexOf(customers, call.variables.id) = {} THEN Null
                                           ELSE customers[CHOOSE n \in IndexOf(customers, call.variables.id) : TRUE]]
                     /\ UNCHANGED <<customers, written>>
                [] outcome = "data" /\ call.op = "customerUpdate" ->
                     /\ IndexOf(customers, call.variables.id) # {}
                     /\ customers' = ApplyUpdate(customers, call.variables)
                     /\ written' = WrittenBy(req, call.variables.id)
                     /\ reply' = [api |-> "shopify", outcome |-> outcome,
                                  data |-> Str(call.variables.id)]
                [] OTHER ->
                     /\ reply' = [api |-> "shopify", outcome |-> outcome, data |-> Undef]
                     /\ UNCHANGED <<customers, written>>
  /\ UNCHANGED <<config, req, invoked, calls, responses, handled>>

ImgbbReply ==
  /\ pc = "awaitImgbb"
  /\ pc' = "imgbbReplied"
  /\ \E outcome \in {"transport", "failure", "success"} :
       reply' = [api |-> "imgbb", outcome |-> outcome, data |-> Undef]
  /\ UNCHANGED <<config, customers, req, invoked, calls, responses, handled, written>>

(***************************************************************************)
(* Handlers, after the await                                               *)
(***************************************************************************)
Finish(op) ==
  /\ pc = "shopifyReplied"
  /\ calls[1].op = op
  /\ pc' = "done"
  /\ UNCHANGED <<config, customers, req, invoked, calls, reply, handled, written>>

KillboardFinish ==
  /\ Finish("getCustomers")
  /\ IF reply.outcome = "data"
     THEN \E sorted \in SortOutcomes(KillboardPlayers(rev, reply.data)) :
            responses' = <<Response(200, "players", WirePlayers(sorted))>>
     ELSE responses' = <<ErrorResponse(500)>>

GarageDataFinish ==
  /\ Finish("getCustomer")
  /\ IF reply.outcome # "data" THEN responses' = <<ErrorResponse(500)>>
     ELSE IF reply.data = Null THEN responses' = <<ErrorResponse(404)>>
     ELSE LET g == GarageData(rev, reply.data)
          IN  IF g.threw THEN responses' = <<ErrorResponse(500)>>
              ELSE responses' = <<Response(200, "garage", Wire(g.data))>>

UpdateCustomerFinish ==
  /\ Finish("customerUpdate")
  /\ CASE reply.outcome = "data" -> responses' = <<Response(200, "updated", reply.data)>>
       [] reply.outcome = "userErrors" -> responses' = <<ErrorResponse(400)>>
       [] OTHER -> responses' = <<ErrorResponse(500)>>

UploadImageFinish ==
  /\ pc = "imgbbReplied"
  /\ pc' = "done"
  /\ IF reply.outcome = "success" THEN responses' = <<Response(200, "url", Undef)>>
     ELSE responses' = <<ErrorResponse(500)>>
  /\ UNCHANGED <<config, customers, req, invoked, calls, reply, handled, written>>

Next ==
  \/ Health
  \/ Killboard
  \/ GarageDataStart
  \/ UploadImage
  \/ UpdateCustomer
  \/ AdminUpdate
  \/ ShopifyReply
  \/ ImgbbReply
  \/ KillboardFinish
  \/ GarageDataFinish
  \/ UpdateCustomerFinish
  \/ UploadImageFinish

Spec == Init /\ [][Next]_vars

(***************************************************************************)
(* Properties                                                              *)
(***************************************************************************)
Entered(h) == \E i \in 1..Len(invoked) : invoked[i] = h

AdminRequest == req.route = "/apps/admin-update"

Denied ==
  /\ pc = "done"
  /\ responses = <<ErrorResponse(403)>>
  /\ calls = <<>>
  /\ reply = NoReply
  /\ ~Entered("update-customer")

\* C1: a POST /apps/admin-update whose X-Admin-Secret header is absent or
\* differs from the configured admin secret is answered 403, the update
\* handler is not entered and no upstream call is made for it.
C1_WrongSecretDenied ==
  (AdminRequest /\ Truthy(ADMIN_SECRET) /\ req.secret # ADMIN_SECRET) => Denied

\* a denied request that carried a wrong secret and a body the update handler
\* would have sent upstream
C1_Witness ==
  /\ AdminRequest
  /\ Truthy(ADMIN_SECRET)
  /\ req.secret = Str(<<"x">>)
  /\ ValidUpdateBody(rev, req.customerId, req.metafields)
  /\ ~UpdateInput(rev, req.customerId, req.metafields).threw
  /\ Denied

\* C2: with no admin secret configured, every POST /apps/admin-update is
\* answered 403 and reaches neither the update handler nor the upstream API.
C2_FailClosed == (AdminRequest /\ ~Truthy(ADMIN_SECRET)) => Denied

\* C3: every request is answered with exactly one response; no handler ends
\* in a rejected promise without a response.
C3_ExactlyOneResponse ==
  /\ pc # "rejected"
  /\ Len(responses) <= 1
  /\ pc = "done" => Len(responses) = 1

\* the decimal representation of n: digits only, no leading zero, value n
IsDecimalOf(s, n) ==
  /\ s # <<>>
  /\ \A i \in 1..Len(s) : IsDigit(s[i])
  /\ Len(s) > 1 => s[1] # "0"
  /\ DigitsValue(s, 0) = n

IsStringOf(s, v) ==
  CASE v.t = "boolean" -> s = IF v.b THEN <<"t", "r", "u", "e">> ELSE <<"f", "a", "l", "s", "e">>
    [] v.t = "number" -> IF v.n < 0 THEN s # <<>> /\ Head(s) = "-" /\ IsDecimalOf(Tail(s), 0 - v.n)
                         ELSE IsDecimalOf(s, v.n)
    [] v.t = "string" -> s = v.s
    [] OTHER -> TRUE

UpdateCalls == {i \in 1..Len(calls) : calls[i].op = "customerUpdate"}

\* C4: the metafields of every customerUpdate mutation sent upstream match
\* the submitted list entry by entry, in order: namespace "rc_arsenal", the
\* submitted key, and as value a string that is the string representation of
\* the submitted boolean, number or string.
C4_ValuesSentAsStrings ==
  \A i \in UpdateCalls :
    LET sent == calls[i].variables.metafields
        body == req.metafields.a
    IN  /\ Len(sent) = Len(body)
        /\ \A j \in 1..Len(sent) :
             /\ sent[j].namespace = "rc_arsenal"
             /\ sent[j].key = body[j].key
             /\ sent[j].value.t = "string"
             /\ IsStringOf(sent[j].value.s, body[j].value)

\* a mutation sent for a list holding a number, a boolean and a string
C4_Witness ==
  /\ UpdateCalls # {}
  /\ Len(req.metafields.a) = 3
  /\ {req.metafields.a[j].value.t : j \in 1..3} = {"number", "boolean", "string"}

GarageRead ==
  /\ req.route = "/apps/garage-data"
  /\ pc = "done"
  /\ reply.outcome = "data"
  /\ reply.data # Null

\* the keys the specification documents as always present
DefaultKeys ==
  {"username", "level", "xp", "victories", "tier", "country", "faction",
   "avatar_url", "car_image_url", "achievements"}

Fallbacks ==
  [k \in {"level", "xp", "victories", "tier", "country", "faction", "achievements"} |->
     CASE k = "level" -> Num(1)
       [] k = "xp" -> Num(0)
       [] k = "victories" -> Num(0)
       [] k = "tier" -> Str(Recruit)
       [] k = "country" -> Str(Unknown)
       [] k = "faction" -> Str(Independent)
       [] OTHER -> Arr(<<>>)]

\* C5: the response to a garage-data read of an existing customer holds every
\* default key, and the documented fallback for each key the upstream record
\* does not set.
C5_GarageDefaults ==
  GarageRead =>
    /\ responses[1].status = 200
    /\ responses[1].kind = "garage"
    /\ DefaultKeys \subseteq DOMAIN responses[1].body
    /\ \A k \in DOMAIN Fallbacks :
         k \notin DOMAIN reply.data.metafields => responses[1].body[k] = Fallbacks[k]

CorruptAchievements ==
  /\ "achievements" \in DOMAIN reply.data.metafields
  /\ ~JSONParse(reply.data.metafields["achievements"].value).ok

\* C6: a garage-data read of a customer whose stored achievements are not
\* valid JSON is answered 200 with achievements the empty sequence.
C6_CorruptAchievementsFallBack ==
  (GarageRead /\ CorruptAchievements) =>
    /\ responses[1].status = 200
    /\ responses[1].kind = "garage"
    /\ Get(responses[1].body, "achievements") = Arr(<<>>)

\* C7: once update-customer has written a list of records as achievements, a
\* garage-data read of that customer returns achievements equal to that list.
C7_AchievementsRoundTrip ==
  (GarageRead /\ written.id = reply.data.id /\ written.value.t = "array") =>
    /\ responses[1].status = 200
    /\ responses[1].kind = "garage"
    /\ Get(responses[1].body, "achievements") = written.value

KillboardRead ==
  /\ req.route = "/apps/killboard"
  /\ pc = "done"
  /\ reply.outcome = "data"

\* C8: the killboard list is in descending xp order, and it is the same list
\* for every order in which upstream may return the same customers.
C8_KillboardOrdered ==
  KillboardRead =>
    /\ responses[1].status = 200
    /\ LET ps == responses[1].body
       IN  /\ \A i \in 1..(Len(ps) - 1) :
                /\ ps[i].xp.t = "number"
                /\ ps[i + 1].xp.t = "number"
                /\ ps[i].xp.n >= ps[i + 1].xp.n
           /\ \A edges \in Orderings(reply.data) :
                \A sorted \in SortOutcomes(KillboardPlayers(rev, edges)) :
                  WirePlayers(sorted) = ps

NumericFallback(k) == IF k = "level" THEN Num(1) ELSE Num(0)

\* the integer a stored attribute stands for, or the fallback of the key
ExpectedNumber(node, k) ==
  IF k \notin DOMAIN node.metafields THEN NumericFallback(k)
  ELSE IF ParseInt(node.metafields[k].value) = NaN THEN NumericFallback(k)
  ELSE ParseInt(node.metafields[k].value)

\* the customer record behind a killboard entry
NodeOf(id) == reply.data[CHOOSE n \in 1..Len(reply.data) : Str(reply.data[n].id) = id]

\* C9: level, xp and victories of every garage-data and killboard response
\* are the integers the stored values parse to, or the fallback (1 for level,
\* 0 for xp and victories) when the value is absent or does not parse.
C9_NumericFieldsAreIntegers ==
  /\ (GarageRead /\ responses[1].status = 200) =>
       \A k \in {"level", "xp", "victories"} :
         responses[1].body[k] = ExpectedNumber(reply.data, k)
  /\ (KillboardRead /\ responses[1].status = 200) =>
       \A i \in 1..Len(responses[1].body) :
         LET p == responses[1].body[i]
         IN  /\ p.level = ExpectedNumber(NodeOf(p.id), "level")
             /\ p.xp = ExpectedNumber(NodeOf(p.id), "xp")
             /\ p.victories = ExpectedNumber(NodeOf(p.id), "victories")

\* the fully-qualified form of an identifier given bare or fully qualified
Qualified(id) == IF StartsWith(id, GidPrefix) THEN id ELSE GidPrefix \o id

\* C10: the identifier sent upstream by garage-data and update-customer is
\* gid://shopify/Customer/<id> with the prefix exactly once, for a bare and
\* for an already qualified customerId alike.
C10_CustomerGidQualified ==
  \A i \in 1..Len(calls) :
    (calls[i].op \in {"getCustomer", "customerUpdate"} /\ req.customerId.t = "string") =>
      /\ calls[i].variables.id = Qualified(req.customerId.s)
      /\ ~StartsWith(SubSeq(calls[i].variables.id, Len(GidPrefix) + 1, Len(calls[i].variables.id)),
                     GidPrefix)

\* the body names a customer and holds a non-empty list of metafields
HasCustomerId == req.customerId.t \notin {"undefined", "null"}
HasMetafieldList == req.metafields.t = "array" /\ Len(req.metafields.a) > 0

\* C11: an update-customer request without a customerId, or whose metafields
\* are absent, not a list or an empty list, is answered 400 with no upstream
\* call; a mutation is sent only for a customerId with a non-empty list.
C11_InvalidBodyRejected ==
  Entered("update-customer") =>
    /\ ~(HasCustomerId /\ HasMetafieldList) =>
         /\ pc = "done"
         /\ responses = <<ErrorResponse(400)>>
         /\ calls = <<>>
    /\ UpdateCalls # {} => HasCustomerId /\ HasMetafieldList
====
